---- MODULE Spec2Model ----
(***************************************************************************)
(* Autonomous ("YOLO") mode of the support-chat backend.                   *)
(*                                                                         *)
(* The service is stateless: GoalState is owned by the caller, sent with   *)
(* every request and returned, updated, in every 200 response.  The model  *)
(* follows one conversation: a Goal and SafetyConstraints fixed at the     *)
(* start, and a caller that sends each request with the GoalState the      *)
(* previous 200 response returned.                                         *)
(*                                                                         *)
(* Texts are sequences of one-character strings, so that lower() and the   *)
(* substring test `in` are computed, not assumed.  Floats with two         *)
(* decimals (confidence, progress) are integers counting hundredths.       *)
(***************************************************************************)
EXTENDS Integers, Sequences, FiniteSets, TLC

VARIABLES
    goal,                \* request.goal: [description, max_turns]
    safety_constraints,  \* request.safety_constraints
    goal_state,          \* the GoalState the caller holds and sends next
    request,             \* the last request sent (Null before the first)
    response,            \* the HTTP result of the last request
    calls,               \* tool functions the last request ran, in order
    turns,               \* requests sent so far in this conversation
    accepted,            \* requests answered 200 so far
    escalated,           \* some earlier turn emitted action = escalate
    terminal,            \* some returned updated_state had active = FALSE
    failed_request,      \* the request just before this one, if it got a 500
    tool_call,           \* a direct call of a tool function and its result
    in_flight,           \* requests sent and not yet answered
    completed,           \* the answered requests: entry state and result
    conversation_logs_storage,  \* log_id -> stored ConversationLog
    log_request,         \* the last conversation-logs request
    log_response,        \* and its HTTP result
    log_calls,           \* conversation-logs requests made so far
    conversation_context \* request.conversation_context: the history sent

vars == <<goal, safety_constraints, goal_state, request, response, calls,
          turns, accepted, escalated, terminal, failed_request, tool_call,
          in_flight, completed, conversation_logs_storage, log_request,
          log_response, log_calls, conversation_context>>

\* the variables of the in-flight requests, of the log store and of the
\* history
otherVars == <<in_flight, completed, conversation_logs_storage, log_request,
               log_response, log_calls, conversation_context>>

\* the variables of the log store
logVars == <<conversation_logs_storage, log_request, log_response, log_calls>>

Null == [null |-> TRUE]

----------------------------------------------------------------------------
(* Bounds of the model *)

MaxTurns == 3        \* goal.max_turns ranges over 1..MaxTurns

MaxKeywords == 1     \* escalation_keywords lists have at most this length

MaxSlack == 2        \* requests a conversation may send beyond MaxTurns

----------------------------------------------------------------------------
(* Text *)

UpperToLower ==
    [c \in {"A","B","C","D","E","F","G","H","I","J","K","L","M","N","O","P",
            "Q","R","S","T","U","V","W","X","Y","Z"} |->
        CASE c = "A" -> "a" [] c = "B" -> "b" [] c = "C" -> "c"
          [] c = "D" -> "d" [] c = "E" -> "e" [] c = "F" -> "f"
          [] c = "G" -> "g" [] c = "H" -> "h" [] c = "I" -> "i"
          [] c = "J" -> "j" [] c = "K" -> "k" [] c = "L" -> "l"
          [] c = "M" -> "m" [] c = "N" -> "n" [] c = "O" -> "o"
          [] c = "P" -> "p" [] c = "Q" -> "q" [] c = "R" -> "r"
          [] c = "S" -> "s" [] c = "T" -> "t" [] c = "U" -> "u"
          [] c = "V" -> "v" [] c = "W" -> "w" [] c = "X" -> "x"
          [] c = "Y" -> "y" [] c = "Z" -> "z"]

\* str.lower()
Lower(s) ==
    [i \in 1..Len(s) |->
        IF s[i] \in DOMAIN UpperToLower THEN UpperToLower[s[i]] ELSE s[i]]

\* `needle in hay` for strings: needle is a contiguous substring of hay
Contains(hay, needle) ==
    \E i \in 0..(Len(hay) - Len(needle)) :
        \A j \in 1..Len(needle) : hay[i + j] = needle[j]

RESPOND == <<"r","e","s","p","o","n","d">>

ESCALATE == <<"e","s","c","a","l","a","t","e">>

GOAL_COMPLETE == <<"g","o","a","l","_","c","o","m","p","l","e","t","e">>

RESOLVED == <<"r","e","s","o","l","v","e","d">>

\* "I'm here to help resolve your issue. Let me gather some information."
PlaceholderReply ==
    <<"I","'","m"," ","h","e","r","e"," ","t","o"," ","h","e","l","p"," ",
      "r","e","s","o","l","v","e"," ","y","o","u","r"," ","i","s","s","u","e",
      "."," ","L","e","t"," ","m","e"," ","g","a","t","h","e","r"," ",
      "s","o","m","e"," ","i","n","f","o","r","m","a","t","i","o","n",".">>

PlaceholderConfidence == 80

ConfusionPhrases ==
    << <<"i"," ","d","o","n","'","t"," ","u","n","d","e","r","s","t","a","n","d">>,
       <<"i","'","m"," ","n","o","t"," ","s","u","r","e">> >>

KeywordTriggerPrefix ==
    <<"e","s","c","a","l","a","t","i","o","n","_","k","e","y","w","o","r",
      "d",":">>

LowConfidencePrefix ==
    <<"l","o","w","_","c","o","n","f","i","d","e","n","c","e",":">>

CONFUSION_DETECTED ==
    <<"c","o","n","f","u","s","i","o","n","_","d","e","t","e","c","t","e",
      "d">>

ViolationsPrefix ==
    <<"S","a","f","e","t","y"," ","v","i","o","l","a","t","i","o","n","s",
      ":"," ">>

TriggerSeparator == <<","," ">>

ALL_CHECKS_PASSED ==
    <<"A","l","l"," ","c","h","e","c","k","s"," ","p","a","s","s","e","d">>

ReasoningPrefix ==
    <<"D","e","c","i","s","i","o","n"," ","b","a","s","e","d"," ","o","n",
      " ","g","o","a","l"," ","a","n","d"," ","s","a","f","e","t","y"," ",
      "a","n","a","l","y","s","i","s",":"," ">>

DecimalDigits == <<"0","1","2","3","4","5","6","7","8","9">>

\* f"{confidence:.2f}" of a confidence given in hundredths (0.8 -> "0.80")
Format2f(c) ==
    <<DecimalDigits[(c \div 100) + 1], ".",
      DecimalDigits[((c \div 10) % 10) + 1], DecimalDigits[(c % 10) + 1]>>

RECURSIVE Join(_, _)
\* sep.join(parts)
Join(sep, parts) ==
    IF parts = <<>> THEN <<>>
    ELSE IF Len(parts) = 1 THEN parts[1]
    ELSE parts[1] \o sep \o Join(sep, Tail(parts))

----------------------------------------------------------------------------
(* app/agents/tools/safety_tools.py *)

RECURSIVE KeywordTriggers(_, _)
\* the loop over constraints["escalation_keywords"], in list order
KeywordTriggers(keywords, message_lower) ==
    IF keywords = <<>> THEN <<>>
    ELSE (IF Contains(message_lower, Lower(Head(keywords)))
            THEN << KeywordTriggerPrefix \o Head(keywords) >>
            ELSE <<>>)
         \o KeywordTriggers(Tail(keywords), message_lower)

ConfidenceTriggers(min_confidence, confidence) ==
    IF confidence < min_confidence
        THEN << LowConfidencePrefix \o Format2f(confidence) >>
        ELSE <<>>

ConfusionTriggers(stop_if_confused, message_lower) ==
    IF stop_if_confused
       /\ \E k \in 1..Len(ConfusionPhrases) :
              Contains(message_lower, ConfusionPhrases[k])
        THEN << CONFUSION_DETECTED >>
        ELSE <<>>

\* check_safety_constraints stopping at the first kind of trigger it finds
check_safety_constraints_short_circuit(message, constraints, confidence) ==
    LET message_lower == Lower(message)
        by_keyword ==
            KeywordTriggers(constraints.escalation_keywords, message_lower)
        by_confidence ==
            ConfidenceTriggers(constraints.min_confidence, confidence)
        by_confusion ==
            ConfusionTriggers(constraints.stop_if_confused, message_lower)
        triggers ==
            IF by_keyword # <<>> THEN by_keyword
            ELSE IF by_confidence # <<>> THEN by_confidence
            ELSE by_confusion
    IN  IF triggers # <<>>
            THEN [decision |-> "escalate",
                  reason   |-> ViolationsPrefix \o Join(TriggerSeparator, triggers),
                  triggers |-> triggers]
            ELSE [decision |-> "safe",
                  reason   |-> ALL_CHECKS_PASSED,
                  triggers |-> <<>>]

check_safety_constraints(message, constraints, confidence) ==
    LET message_lower == Lower(message)
        triggers ==
            KeywordTriggers(constraints.escalation_keywords, message_lower)
            \o ConfidenceTriggers(constraints.min_confidence, confidence)
            \o ConfusionTriggers(constraints.stop_if_confused, message_lower)
    IN  IF triggers # <<>>
            THEN [decision |-> "escalate",
                  reason   |-> ViolationsPrefix \o Join(TriggerSeparator, triggers),
                  triggers |-> triggers]
            ELSE [decision |-> "safe",
                  reason   |-> ALL_CHECKS_PASSED,
                  triggers |-> <<>>]

----------------------------------------------------------------------------
(* app/agents/tools/goal_tools.py *)

\* round(num/den, 2) in hundredths, ties to the even hundredth.  Exact for
\* every num/den with den < 40 (binary floats decide ties otherwise).
Round2(num, den) ==
    LET q == (100 * num) \div den
        r == (100 * num) % den
    IN  IF 2 * r > den \/ (2 * r = den /\ q % 2 = 1) THEN q + 1 ELSE q

\* track_goal_progress deactivating one turn early: new_turn + 1 < max_turns
track_goal_progress_early_inactive(g, current_state, latest_action) ==
    LET new_turn  == current_state.current_turn + 1
        max_turns == g.max_turns
        capped    == 10 * new_turn >= 9 * max_turns
        base_num  == IF capped THEN 9 ELSE new_turn
        base_den  == IF capped THEN 10 ELSE max_turns
        resolved  == Contains(Lower(latest_action), RESOLVED)
        num       == IF resolved THEN 1 ELSE base_num
        den       == IF resolved THEN 1 ELSE base_den
    IN  [active       |-> (num < den) /\ (new_turn + 1 < max_turns),
         current_turn |-> new_turn,
         progress     |-> Round2(num, den)]

\* track_goal_progress without the + 1: new_turn = current_turn
track_goal_progress_no_advance(g, current_state, latest_action) ==
    LET new_turn  == current_state.current_turn
        max_turns == g.max_turns
        capped    == 10 * new_turn >= 9 * max_turns
        base_num  == IF capped THEN 9 ELSE new_turn
        base_den  == IF capped THEN 10 ELSE max_turns
        resolved  == Contains(Lower(latest_action), RESOLVED)
        num       == IF resolved THEN 1 ELSE base_num
        den       == IF resolved THEN 1 ELSE base_den
    IN  [active       |-> (num < den) /\ (new_turn < max_turns),
         current_turn |-> new_turn,
         progress     |-> Round2(num, den)]

\* track_goal_progress with active = progress < 1.0 alone
track_goal_progress_ignores_ceiling(g, current_state, latest_action) ==
    LET new_turn  == current_state.current_turn + 1
        max_turns == g.max_turns
        capped    == 10 * new_turn >= 9 * max_turns
        base_num  == IF capped THEN 9 ELSE new_turn
        base_den  == IF capped THEN 10 ELSE max_turns
        resolved  == Contains(Lower(latest_action), RESOLVED)
        num       == IF resolved THEN 1 ELSE base_num
        den       == IF resolved THEN 1 ELSE base_den
    IN  [active       |-> (num < den),
         current_turn |-> new_turn,
         progress     |-> Round2(num, den)]

\* track_goal_progress testing "resolved" without lower()
track_goal_progress_case_sensitive(g, current_state, latest_action) ==
    LET new_turn  == current_state.current_turn + 1
        max_turns == g.max_turns
        capped    == 10 * new_turn >= 9 * max_turns
        base_num  == IF capped THEN 9 ELSE new_turn
        base_den  == IF capped THEN 10 ELSE max_turns
        resolved  == Contains(latest_action, RESOLVED)
        num       == IF resolved THEN 1 ELSE base_num
        den       == IF resolved THEN 1 ELSE base_den
    IN  [active       |-> (num < den) /\ (new_turn < max_turns),
         current_turn |-> new_turn,
         progress     |-> Round2(num, den)]

\* track_goal_progress reading a key the state does not have, so that the
\* default 0 is always used: new_turn = 0 + 1
track_goal_progress_wrong_key(g, current_state, latest_action) ==
    LET new_turn  == 0 + 1
        max_turns == g.max_turns
        capped    == 10 * new_turn >= 9 * max_turns
        base_num  == IF capped THEN 9 ELSE new_turn
        base_den  == IF capped THEN 10 ELSE max_turns
        resolved  == Contains(Lower(latest_action), RESOLVED)
        num       == IF resolved THEN 1 ELSE base_num
        den       == IF resolved THEN 1 ELSE base_den
    IN  [active       |-> (num < den) /\ (new_turn < max_turns),
         current_turn |-> new_turn,
         progress     |-> Round2(num, den)]

\* the exception new_turn / max_turns raises when max_turns is 0
ZeroDivisionError == [raised |-> "ZeroDivisionError"]

track_goal_progress(g, current_state, latest_action) ==
    LET new_turn  == current_state.current_turn + 1
        max_turns == g.max_turns
        \* min(new_turn / max_turns, 0.9) as a fraction num/den; a negative
        \* max_turns gives a quotient that is not above 0
        capped    == max_turns > 0 /\ 10 * new_turn >= 9 * max_turns
        base_num  == IF capped THEN 9 ELSE new_turn
        base_den  == IF capped THEN 10 ELSE max_turns
        resolved  == Contains(Lower(latest_action), RESOLVED)
        num       == IF resolved THEN 1 ELSE base_num
        den       == IF resolved THEN 1 ELSE base_den
        below_one == IF den > 0 THEN num < den ELSE num > den
    IN  IF max_turns = 0 THEN ZeroDivisionError
        ELSE [active       |-> below_one /\ (new_turn < max_turns),
              current_turn |-> new_turn,
              progress     |-> IF den > 0 THEN Round2(num, den)
                                          ELSE - Round2(num, - den)]

----------------------------------------------------------------------------
(* app/agents/tools/context_tools.py *)

MaxMessages == 50

Whitespace == {" ", "\t", "\n", "\r"}

Digits == {"0","1","2","3","4","5","6","7","8","9"}

Letters ==
    DOMAIN UpperToLower \cup {UpperToLower[c] : c \in DOMAIN UpperToLower}

\* \w
WordChars == Letters \cup Digits \cup {"_"}

\* [A-Za-z0-9._%+-]
LocalChars == Letters \cup Digits \cup {".", "_", "%", "+", "-"}

\* [A-Za-z0-9.-]
DomainChars == Letters \cup Digits \cup {".", "-"}

\* [A-Z|a-z]
TldChars == Letters \cup {"|"}

RECURSIVE LStrip(_)
LStrip(s) ==
    IF s # <<>> /\ Head(s) \in Whitespace THEN LStrip(Tail(s)) ELSE s

RECURSIVE RStrip(_)
RStrip(s) ==
    IF s # <<>> /\ s[Len(s)] \in Whitespace
        THEN RStrip(SubSeq(s, 1, Len(s) - 1))
        ELSE s

\* str.strip()
Strip(s) == RStrip(LStrip(s))

RECURSIVE RunEnd(_, _, _)
\* the last index of the longest run of chars of class that starts at i
\* (i - 1 when s[i] is not of the class)
RunEnd(s, i, class) ==
    IF i <= Len(s) /\ s[i] \in class THEN RunEnd(s, i + 1, class) ELSE i - 1

\* \b between s[i] and s[i + 1]
WordBoundary(s, i) ==
    LET before == i >= 1 /\ i <= Len(s) /\ s[i] \in WordChars
        after  == i + 1 >= 1 /\ i + 1 <= Len(s) /\ s[i + 1] \in WordChars
    IN  before # after

RECURSIVE FindOrderNumbers(_, _)
\* re.findall(r'#\d+', s), scanning from index i
FindOrderNumbers(s, i) ==
    IF i > Len(s) THEN <<>>
    ELSE IF s[i] = "#" /\ RunEnd(s, i + 1, Digits) >= i + 1
        THEN << SubSeq(s, i, RunEnd(s, i + 1, Digits)) >>
             \o FindOrderNumbers(s, RunEnd(s, i + 1, Digits) + 1)
        ELSE FindOrderNumbers(s, i + 1)

\* the last index of the match of the e-mail pattern that starts at i, or 0:
\* the local part is the whole run up to "@"; the domain ends before the
\* last "." that is followed by two or more TLD chars ending at a \b, and
\* the TLD is the longest such
EmailMatchEnd(s, i) ==
    LET at == RunEnd(s, i, LocalChars) + 1
        domain_end == RunEnd(s, at + 1, DomainChars)
        TldEnds(q) ==
            {e \in (q + 2)..RunEnd(s, q + 1, TldChars) : WordBoundary(s, e)}
        dots ==
            {q \in (at + 2)..domain_end : s[q] = "." /\ TldEnds(q) # {}}
        last_dot == CHOOSE q \in dots : \A r \in dots : r <= q
    IN  IF /\ WordBoundary(s, i - 1)
           /\ at > i
           /\ at <= Len(s)
           /\ s[at] = "@"
           /\ dots # {}
        THEN CHOOSE e \in TldEnds(last_dot) :
                 \A f \in TldEnds(last_dot) : f <= e
        ELSE 0

RECURSIVE FindEmails(_, _)
\* re.findall(r'\b[A-Za-z0-9._%+-]+@[A-Za-z0-9.-]+\.[A-Z|a-z]{2,}\b', s),
\* scanning from index i
FindEmails(s, i) ==
    IF i > Len(s) THEN <<>>
    ELSE IF EmailMatchEnd(s, i) > 0
        THEN << SubSeq(s, i, EmailMatchEnd(s, i)) >>
             \o FindEmails(s, EmailMatchEnd(s, i) + 1)
        ELSE FindEmails(s, i + 1)

OrderWords == { <<"o","r","d","e","r">>,
                <<"s","h","i","p","p","i","n","g">>,
                <<"d","e","l","i","v","e","r","y">> }

RefundWords == { <<"r","e","f","u","n","d">>,
                 <<"r","e","t","u","r","n">>,
                 <<"c","a","n","c","e","l">> }

\* "if not messages or len(messages) > 50" with > read as >=
InvalidMessageCount_off_by_one(messages) ==
    Len(messages) = 0 \/ Len(messages) >= MaxMessages

\* "if not messages or len(messages) > 50"
InvalidMessageCount(messages) ==
    Len(messages) = 0 \/ Len(messages) > MaxMessages

\* the intent test with the refund words tried first
DetectIntent_refund_first(all_content) ==
    IF \E w \in RefundWords : Contains(all_content, w) THEN "refund_request"
    ELSE IF \E w \in OrderWords : Contains(all_content, w) THEN "order_inquiry"
    ELSE "general_inquiry"

\* "Detect intent"
DetectIntent(all_content) ==
    IF \E w \in OrderWords : Contains(all_content, w) THEN "order_inquiry"
    ELSE IF \E w \in RefundWords : Contains(all_content, w) THEN "refund_request"
    ELSE "general_inquiry"

RECURSIVE Flatten(_, _)
\* the concatenation of lists[i], lists[i + 1], ...
Flatten(lists, i) ==
    IF i > Len(lists) THEN <<>> ELSE lists[i] \o Flatten(lists, i + 1)

\* the entities accumulated over the processed messages, in order
ExtractEntities(processed) ==
    [order_numbers |->
        Flatten([i \in 1..Len(processed) |->
                    FindOrderNumbers(processed[i].content, 1)], 1),
     emails |->
        Flatten([i \in 1..Len(processed) |->
                    FindEmails(processed[i].content, 1)], 1)]

process_conversation_context(messages) ==
    IF InvalidMessageCount(messages)
    THEN [error |-> "Invalid message count"]
    ELSE
    LET processed ==
            [i \in 1..Len(messages) |->
                [role      |-> messages[i].role,
                 content   |-> Strip(messages[i].content),
                 timestamp |-> messages[i].timestamp]]
        all_content ==
            Lower(Join(<<" ">>, [i \in 1..Len(processed) |-> processed[i].content]))
    IN  [processed_messages |-> processed,
         intent             |-> DetectIntent(all_content),
         entities           |-> ExtractEntities(processed)]

----------------------------------------------------------------------------
(* app/agents/autonomous_agent.py *)

SafetyCall(message, result) ==
    [fn |-> "check_safety_constraints", message |-> message, result |-> result]

TrackCall(current_state, latest_action, result) ==
    [fn |-> "track_goal_progress", current_state |-> current_state,
     latest_action |-> latest_action, result |-> result]

\* an exception leaving process, after the tool calls made so far
Raised(made) == [raised |-> TRUE, calls |-> made, value |-> Null]

\* the AutonomousResponse process returns; metadata (a fresh uuid and the
\* wall clock) is left out
Returned(action, response_text, updated_state, safety_result, made) ==
    [raised |-> FALSE,
     calls  |-> made,
     value  |-> [action        |-> action,
                 response_text |-> response_text,
                 updated_state |-> updated_state,
                 reasoning     |-> ReasoningPrefix \o safety_result.reason,
                 confidence    |-> PlaceholderConfidence]]

\* Decide escalating but leaving response_text set
Decide_keeps_text(safety_result, candidate) ==
    IF safety_result.decision = "escalate"
        THEN [action |-> ESCALATE, response_text |-> candidate]
        ELSE [action |-> RESPOND, response_text |-> candidate]

\* Decide releasing the reply whatever the verdict
Decide_ignores_verdict(safety_result, candidate) ==
    [action |-> RESPOND, response_text |-> candidate]

\* Decide reporting a safe turn to the tracker as "resolved"
Decide_reports_resolved(safety_result, candidate) ==
    IF safety_result.decision = "escalate"
        THEN [action |-> ESCALATE, response_text |-> Null]
        ELSE [action |-> RESOLVED, response_text |-> candidate]

\* the branch on the safety decision: the action and the text to release
Decide(safety_result, candidate) ==
    IF safety_result.decision = "escalate"
        THEN [action |-> ESCALATE, response_text |-> Null]
        ELSE [action |-> RESPOND, response_text |-> candidate]

RoleUpper ==
    [agent    |-> <<"A","G","E","N","T">>,
     customer |-> <<"C","U","S","T","O","M","E","R">>]

\* "\n".join(f"{msg.role.upper()}: {msg.content}" for msg in context)
MessagesText(context) ==
    Join(<<"\n">>, [i \in 1..Len(context) |->
                        RoleUpper[context[i].role] \o <<":", " ">>
                        \o context[i].content])

\* the values the prompt is formatted from
Prompt(req) ==
    [goal          |-> req.goal,
     goal_state    |-> req.goal_state,
     constraints   |-> req.safety_constraints,
     messages_text |-> MessagesText(req.conversation_context)]

\* process overriding the action with goal_complete whenever the updated
\* state is inactive, escalated or not
process_completion_wins(req, generation_fails) ==
    IF generation_fails THEN Raised(<<>>)
    ELSE
    LET candidate     == PlaceholderReply
        safety_result == check_safety_constraints(
                             candidate, req.safety_constraints,
                             PlaceholderConfidence)
        d             == Decide(safety_result, candidate)
        updated_state == track_goal_progress(req.goal, req.goal_state, d.action)
        action        == IF updated_state.active THEN d.action ELSE GOAL_COMPLETE
    IN  Returned(action, d.response_text, updated_state, safety_result,
                 << SafetyCall(candidate, safety_result),
                    TrackCall(req.goal_state, d.action, updated_state) >>)

\* process updating the goal state on the respond branch only
process_escalation_skips_tracking(req, generation_fails) ==
    IF generation_fails THEN Raised(<<>>)
    ELSE
    LET candidate     == PlaceholderReply
        safety_result == check_safety_constraints(
                             candidate, req.safety_constraints,
                             PlaceholderConfidence)
        d             == Decide(safety_result, candidate)
        updated_state == track_goal_progress(req.goal, req.goal_state, d.action)
    IN  IF d.action = ESCALATE
        THEN Returned(d.action, d.response_text, req.goal_state, safety_result,
                      << SafetyCall(candidate, safety_result) >>)
        ELSE Returned(d.action, d.response_text, updated_state, safety_result,
                      << SafetyCall(candidate, safety_result),
                         TrackCall(req.goal_state, d.action, updated_state) >>)

\* process updating the goal state first, before the reply is generated
process_tracks_first(req, generation_fails) ==
    LET updated_state == track_goal_progress(req.goal, req.goal_state, RESPOND)
        tracked       == TrackCall(req.goal_state, RESPOND, updated_state)
    IN  IF generation_fails THEN Raised(<< tracked >>)
        ELSE
        LET candidate     == PlaceholderReply
            safety_result == check_safety_constraints(
                                 candidate, req.safety_constraints,
                                 PlaceholderConfidence)
            d             == Decide(safety_result, candidate)
        IN  Returned(d.action, d.response_text, updated_state, safety_result,
                     << tracked, SafetyCall(candidate, safety_result) >>)

\* AutonomousAgentService.process.  The awaited agent invocation (the TODO
\* standing where the reply is generated) either yields the placeholder
\* reply, or raises: generation_fails is the collaborator's outcome.
\* process answering with the last message of the history
process_answers_from_context(req, generation_fails) ==
    IF generation_fails THEN Raised(<<>>)
    ELSE
    LET context       == req.conversation_context
        candidate     == context[Len(context)].content
        safety_result == check_safety_constraints(
                             candidate, req.safety_constraints,
                             PlaceholderConfidence)
        d             == Decide(safety_result, candidate)
        updated_state == track_goal_progress(req.goal, req.goal_state, d.action)
    IN  Returned(d.action, d.response_text, updated_state, safety_result,
                 << SafetyCall(candidate, safety_result),
                    TrackCall(req.goal_state, d.action, updated_state) >>)

\* the prompt is built and then not used: the reply is the placeholder
process(req, generation_fails) ==
    IF generation_fails THEN Raised(<<>>)
    ELSE
    LET prompt        == Prompt(req)
        candidate     == PlaceholderReply
        safety_result == check_safety_constraints(
                             candidate, req.safety_constraints,
                             PlaceholderConfidence)
        d             == Decide(safety_result, candidate)
        updated_state == track_goal_progress(req.goal, req.goal_state, d.action)
    IN  Returned(d.action, d.response_text, updated_state, safety_result,
                 << SafetyCall(candidate, safety_result),
                    TrackCall(req.goal_state, d.action, updated_state) >>)

----------------------------------------------------------------------------
(* app/api/routes/autonomous.py *)

HttpError(status, detail) ==
    [status |-> status, detail |-> detail, body |-> Null, calls |-> <<>>]

\* the turn-limit test with > for >=
TurnLimitReached_strict(req) ==
    req.goal_state.current_turn > req.goal.max_turns

\* the turn-limit test left out
TurnLimitReached_never(req) == FALSE

\* "Validate turn limits"
TurnLimitReached(req) ==
    req.goal_state.current_turn >= req.goal.max_turns

\* the POST /autonomous-response handler: the HTTP result and the tool calls
autonomous_response(req, generation_fails) ==
    IF req.goal = Null \/ req.goal.description = ""
        THEN HttpError(400, <<"Goal description required">>)
    ELSE IF req.safety_constraints = Null
        THEN HttpError(400, <<"Safety constraints required">>)
    ELSE IF TurnLimitReached(req)
        THEN HttpError(400, <<"Max turns reached", req.goal.max_turns>>)
    ELSE
        LET r == process(req, generation_fails)
        IN  IF r.raised
                THEN [status |-> 500,
                      detail |-> <<"Autonomous processing failed">>,
                      body |-> Null, calls |-> r.calls]
                ELSE [status |-> 200, detail |-> <<>>, body |-> r.value,
                      calls |-> r.calls]

----------------------------------------------------------------------------
(* Requests that pass the pydantic validation of app/models/request.py *)

Descriptions == {"", "Resolve shipping issue"}

Goals == [description : Descriptions, max_turns : 1..MaxTurns]

InitialProgress == {0, 50, 100}

GoalStates ==
    [active : BOOLEAN, current_turn : 0..MaxTurns, progress : InitialProgress]

\* "angry" is not in the placeholder reply, "Help" is (ignoring case), and
\* the empty keyword is a substring of every text
KeywordPool == { <<"a","n","g","r","y">>, <<"H","e","l","p">>, <<>> }

KeywordLists ==
    UNION { [1..n -> KeywordPool] : n \in 0..MaxKeywords }

MinConfidences == {70, 80, 90}

SafetyConstraintsSet ==
    [min_confidence      : MinConfidences,
     escalation_keywords : KeywordLists,
     stop_if_confused    : BOOLEAN]

\* the history of the test request: one customer message
TestContext ==
    << [role      |-> "customer",
        content   |-> <<"W","h","e","r","e"," ","i","s"," ","m","y"," ","p",
                      "a","c","k","a","g","e","?"," ","I","t","'","s"," ","b",
                      "e","e","n"," ","2"," ","w","e","e","k","s","!">>,
        timestamp |-> 1704067200] >>

AutonomousRequest ==
    [goal |-> goal, goal_state |-> goal_state,
     safety_constraints |-> safety_constraints,
     conversation_context |-> conversation_context]

NoResponse == [status |-> 0, detail |-> <<>>, body |-> Null]

----------------------------------------------------------------------------
(* One conversation *)

\* no request in flight, an empty log store
NothingElse ==
    /\ in_flight = <<>>
    /\ completed = <<>>
    /\ conversation_logs_storage = <<>>
    /\ log_request = Null
    /\ log_response = Null
    /\ log_calls = 0
    /\ conversation_context = TestContext


Init ==
    /\ goal \in Goals
    /\ safety_constraints \in SafetyConstraintsSet
    /\ goal_state \in GoalStates
    /\ request = Null
    /\ response = NoResponse
    /\ calls = <<>>
    /\ turns = 0
    /\ accepted = 0
    /\ escalated = FALSE
    /\ terminal = FALSE
    /\ failed_request = Null
    /\ tool_call = Null
    /\ NothingElse

\* The caller sends the next turn of the conversation with the GoalState it
\* holds, the handler answers, and on a 200 the caller keeps updated_state.
\* escalated, terminal and failed_request record what the turns before the
\* one being answered returned.
AutonomousTurn ==
    /\ turns < MaxTurns + MaxSlack
    /\ \E generation_fails \in BOOLEAN :
        LET r == autonomous_response(AutonomousRequest, generation_fails)
            ok == r.status = 200
        IN  /\ request' = AutonomousRequest
            /\ response' = [status |-> r.status, detail |-> r.detail,
                            body |-> r.body]
            /\ calls' = r.calls
            /\ goal_state' = IF ok THEN r.body.updated_state ELSE goal_state
            /\ turns' = turns + 1
            /\ accepted' = IF ok THEN accepted + 1 ELSE accepted
    /\ escalated' = (escalated \/ (response.status = 200
                                   /\ response.body.action = ESCALATE))
    /\ terminal' = (terminal \/ (response.status = 200
                                 /\ ~response.body.updated_state.active))
    /\ failed_request' = IF response.status = 500 THEN request ELSE Null
    /\ UNCHANGED <<goal, safety_constraints, tool_call, otherVars>>

Next == AutonomousTurn

Spec == Init /\ [][Next]_vars

----------------------------------------------------------------------------
(* One conversation whose caller does not wait for the answer.  The request
   carries no session id and the handler keeps nothing between requests, so
   nothing in the service holds a second request back while a first is
   unanswered; each request is handled in one piece, in any order. *)

MaxInFlight == 2     \* requests the caller may have unanswered at once

MaxSends == 3        \* requests the caller sends in all

FreshGoalStates == {s \in GoalStates : s.active /\ s.progress = 0}

InitConcurrent ==
    /\ goal \in Goals
    /\ safety_constraints \in {c \in SafetyConstraintsSet : c.stop_if_confused}
    /\ goal_state \in FreshGoalStates
    /\ request = Null
    /\ response = NoResponse
    /\ calls = <<>>
    /\ turns = 0
    /\ accepted = 0
    /\ escalated = FALSE
    /\ terminal = FALSE
    /\ failed_request = Null
    /\ tool_call = Null
    /\ NothingElse

\* the caller posts the next turn with the GoalState it holds
SendTurn ==
    /\ turns < MaxSends
    /\ Len(in_flight) < MaxInFlight
    /\ in_flight' = Append(in_flight, AutonomousRequest)
    /\ turns' = turns + 1
    /\ UNCHANGED <<goal, safety_constraints, goal_state, request, response,
                   calls, accepted, escalated, terminal, failed_request,
                   tool_call, completed, logVars, conversation_context>>

\* the handler answers one of the unanswered requests; on a 200 the caller
\* keeps the updated_state it receives
HandleTurn ==
    /\ \E i \in 1..Len(in_flight), generation_fails \in BOOLEAN :
        LET req == in_flight[i]
            r   == autonomous_response(req, generation_fails)
            ok  == r.status = 200
        IN  /\ in_flight' = SubSeq(in_flight, 1, i - 1)
                              \o SubSeq(in_flight, i + 1, Len(in_flight))
            /\ completed' = Append(completed,
                   [entry   |-> req.goal_state,
                    status  |-> r.status,
                    action  |-> IF ok THEN r.body.action ELSE Null,
                    updated |-> IF ok THEN r.body.updated_state ELSE Null])
            /\ request' = req
            /\ response' = [status |-> r.status, detail |-> r.detail,
                            body |-> r.body]
            /\ calls' = r.calls
            /\ goal_state' = IF ok THEN r.body.updated_state ELSE goal_state
            /\ accepted' = IF ok THEN accepted + 1 ELSE accepted
    /\ UNCHANGED <<goal, safety_constraints, turns, escalated, terminal,
                   failed_request, tool_call, logVars,
                   conversation_context>>

NextConcurrent == SendTurn \/ HandleTurn

ConcurrentSpec == InitConcurrent /\ [][NextConcurrent]_vars

----------------------------------------------------------------------------
(* Requests that differ in the history only.  The service keeps nothing
   between requests, so the GoalState of a request is whatever its caller
   sends: here each request carries the same goal, GoalState and constraints
   and a history of its own.  The claim compares two answers, so two
   requests are sent. *)

\* histories of one to three messages: the test's, one that ends on an
\* agent message with a confusion phrase, one with an escalation keyword
ConversationContexts ==
    { TestContext,
      TestContext \o
        << [role      |-> "agent",
            content   |-> <<"I","'","m"," ","n","o","t"," ","s","u","r","e",","," ","l","e","t"," ","m","e"," ","c","h","e","c","k">>,
            timestamp |-> 1704067260] >>,
      << [role      |-> "customer",
          content   |-> <<"I"," ","a","m"," ","a","n","g","r","y",","," ","h","e","l","p"," ","m","e">>,
          timestamp |-> 1704067200] >> }

\* a caller posts the turn with one of the histories and is answered; the
\* GoalState the callers send stays the one they started from
AnswerWithContext ==
    /\ Len(completed) < 2
    /\ \E context \in ConversationContexts, generation_fails \in BOOLEAN :
        LET req == [AutonomousRequest EXCEPT !.conversation_context = context]
            r   == autonomous_response(req, generation_fails)
        IN  /\ conversation_context' = context
            /\ request' = req
            /\ response' = [status |-> r.status, detail |-> r.detail,
                            body |-> r.body]
            /\ calls' = r.calls
            /\ completed' = Append(completed,
                   [request |-> req, status |-> r.status, body |-> r.body])
            /\ accepted' = IF r.status = 200 THEN accepted + 1 ELSE accepted
    /\ turns' = turns + 1
    /\ UNCHANGED <<goal, safety_constraints, goal_state, escalated, terminal,
                   failed_request, tool_call, in_flight, logVars>>

NextContext == AnswerWithContext

ContextSpec == InitConcurrent /\ [][NextContext]_vars

----------------------------------------------------------------------------
(* The tool functions called directly, on any well-formed input *)

ActionTexts ==
    { RESPOND, ESCALATE, RESOLVED,
      <<"I","s","s","u","e"," ","R","E","S","O","L","V","E","D">>, <<>> }

ToolProgress == {0, 25, 50, 90, 100}

ToolGoalStates ==
    [active : BOOLEAN, current_turn : 0..(MaxTurns + 1), progress : ToolProgress]

MaxToolKeywords == 2  \* keyword lists of direct safety calls: at most this long

\* "I'm not sure what you mean", "Thanks for your patience", "Happy to help!"
\* and "I DON'T UNDERSTAND why you are Angry"
ToolMessages ==
    { <<"I","'","m"," ","n","o","t"," ","s","u","r","e"," ","w","h","a","t"," ","y","o","u"," ","m","e","a","n">>,
      <<"T","h","a","n","k","s"," ","f","o","r"," ","y","o","u","r"," ","p","a","t","i","e","n","c","e">>,
      <<"H","a","p","p","y"," ","t","o"," ","h","e","l","p","!">>,
      <<"I"," ","D","O","N","'","T"," ","U","N","D","E","R","S","T","A","N","D"," ","w","h","y"," ","y","o","u"," ","a","r","e"," ","A","n","g","r","y">> }

ToolKeywordLists ==
    UNION { [1..n -> KeywordPool] : n \in 0..MaxToolKeywords }

ToolConstraints ==
    [min_confidence      : MinConfidences,
     escalation_keywords : ToolKeywordLists,
     stop_if_confused    : BOOLEAN]

ToolConfidences == {50, 70, 90}

InitTools ==
    /\ goal = [description |-> "Resolve shipping issue", max_turns |-> 1]
    /\ safety_constraints = [min_confidence |-> 70,
                             escalation_keywords |-> <<>>,
                             stop_if_confused |-> TRUE]
    /\ goal_state = [active |-> TRUE, current_turn |-> 0, progress |-> 0]
    /\ request = Null
    /\ response = NoResponse
    /\ calls = <<>>
    /\ turns = 0
    /\ accepted = 0
    /\ escalated = FALSE
    /\ terminal = FALSE
    /\ failed_request = Null
    /\ tool_call = Null
    /\ NothingElse

CallTrackGoalProgress ==
    /\ tool_call = Null
    /\ \E g \in Goals, s \in ToolGoalStates, a \in ActionTexts :
        tool_call' = TrackCall(s, a, track_goal_progress(g, s, a))
                        @@ [goal |-> g]
    /\ UNCHANGED <<goal, safety_constraints, goal_state, request, response,
                   calls, turns, accepted, escalated, terminal,
                   failed_request, otherVars>>

CallCheckSafetyConstraints ==
    /\ tool_call = Null
    /\ \E m \in ToolMessages, c \in ToolConstraints, f \in ToolConfidences :
        tool_call' = SafetyCall(m, check_safety_constraints(m, c, f))
                        @@ [constraints |-> c, confidence |-> f]
    /\ UNCHANGED <<goal, safety_constraints, goal_state, request, response,
                   calls, turns, accepted, escalated, terminal,
                   failed_request, otherVars>>

ExampleContent ==
    <<"O","r","d","e","r"," ","#","4","5","2","1",","," ","e","m","a","i","l",
      " ","m","e"," ","a","t"," ","a","@","b",".","c","o","m">>

\* the contents of the messages a conversation history is built from
ContextContents ==
    { ExampleContent,
      <<"I"," ","w","a","n","t"," ","a"," ","r","e","f","u","n","d">>,
      <<"C","a","n","c","e","l"," ","m","y"," ","O","R","D","E","R"," ","#",
      "7","7">>,
      <<"h","e","l","l","o">>,
      <<"R","E","T","U","R","N"," ","i","t"," ","t","o"," ","x","@","y",".",
      "o","r","g"," ">> }

ContextMessages ==
    [role : {"customer"}, content : ContextContents, timestamp : {1704067200}]

MaxHistory == 2

\* the histories of at most MaxHistory messages, and the histories of one
\* message repeated up to and past the limit of the message count
ContextHistories ==
    UNION {[1..n -> ContextMessages] : n \in 0..MaxHistory}
    \cup {[i \in 1..n |-> m] :
            n \in (MaxMessages - 1)..(MaxMessages + 1), m \in ContextMessages}

ContextCall(messages, result) ==
    [fn |-> "process_conversation_context", messages |-> messages,
     result |-> result]

CallProcessConversationContext ==
    /\ tool_call = Null
    /\ \E messages \in ContextHistories :
        tool_call' = ContextCall(messages, process_conversation_context(messages))
    /\ UNCHANGED <<goal, safety_constraints, goal_state, request, response,
                   calls, turns, accepted, escalated, terminal,
                   failed_request, otherVars>>

NextTools ==
    \/ CallTrackGoalProgress
    \/ CallCheckSafetyConstraints
    \/ CallProcessConversationContext

ToolSpec == InitTools /\ [][NextTools]_vars

----------------------------------------------------------------------------
(* track_goal_progress called with a goal dict no Goal model validated *)

InvalidGoals == [description : Descriptions, max_turns : (- MaxTurns)..0]

CallTrackInvalidGoal ==
    /\ tool_call = Null
    /\ \E g \in InvalidGoals, s \in ToolGoalStates, a \in ActionTexts :
        tool_call' = TrackCall(s, a, track_goal_progress(g, s, a))
                        @@ [goal |-> g]
    /\ UNCHANGED <<goal, safety_constraints, goal_state, request, response,
                   calls, turns, accepted, escalated, terminal,
                   failed_request, otherVars>>

NextInvalidGoal == CallTrackInvalidGoal

InvalidGoalSpec == InitTools /\ [][NextInvalidGoal]_vars

----------------------------------------------------------------------------
(* app/api/routes/conversation_logs.py *)

LogModes == {"suggestion", "autonomous"}

LogOutcomes == {"completed", "escalated", "interrupted"}

\* conversation_logs_storage[log.log_id] = log, on a dict kept as the list of
\* its values in insertion order: a new key is appended, a key already
\* there keeps its place and takes the new value
StoreLog(storage, log) ==
    IF \E i \in 1..Len(storage) : storage[i].log_id = log.log_id
    THEN [i \in 1..Len(storage) |->
            IF storage[i].log_id = log.log_id THEN log ELSE storage[i]]
    ELSE Append(storage, log)

\* "Validate outcome", accepting every outcome
OutcomeAllowed_any(outcome) == TRUE

\* "Validate outcome"
OutcomeAllowed(outcome) == outcome \in LogOutcomes

\* POST /conversation-logs: the HTTP result and the storage afterwards
save_conversation_log(storage, log) ==
    IF log.mode \notin LogModes
    THEN [status  |-> 400,
          detail  |-> "Mode must be 'suggestion' or 'autonomous'",
          body    |-> Null,
          storage |-> storage]
    ELSE IF ~OutcomeAllowed(log.outcome)
    THEN [status  |-> 400,
          detail  |-> "Outcome must be 'completed', 'escalated', or 'interrupted'",
          body    |-> Null,
          storage |-> storage]
    ELSE [status  |-> 200,
          detail  |-> Null,
          body    |-> [log_id  |-> log.log_id,
                       status  |-> "success",
                       message |-> "Conversation log saved successfully"],
          storage |-> StoreLog(storage, log)]

\* "if session_id:": no filter for a missing or empty session_id
FilterBySession(logs, session_id) ==
    IF session_id = "" THEN logs
    ELSE SelectSeq(logs, LAMBDA log : log.session_id = session_id)

\* the mode filter, keeping every log
FilterByMode_keeps_all(logs, mode) == logs

\* "if mode:" once the mode has passed its check
FilterByMode(logs, mode) ==
    IF mode = "" THEN logs
    ELSE SelectSeq(logs, LAMBDA log : log.mode = mode)

\* logs.sort(key=lambda x: x.timestamp, reverse=True): a stable sort, the
\* logs of one timestamp keep their order
NewestFirst(logs) ==
    LET Rank(i) ==
            Cardinality({j \in 1..Len(logs) :
                \/ logs[j].timestamp > logs[i].timestamp
                \/ (logs[j].timestamp = logs[i].timestamp /\ j < i)}) + 1
    IN  [k \in 1..Len(logs) |-> logs[CHOOSE i \in 1..Len(logs) : Rank(i) = k]]

\* logs[start_idx:end_idx] for 0 <= start_idx <= end_idx
Slice(logs, start_idx, end_idx) ==
    SubSeq(logs, start_idx + 1,
           IF end_idx < Len(logs) THEN end_idx ELSE Len(logs))

\* GET /conversation-logs: the HTTP result; "" is a parameter not given
get_conversation_logs(storage, session_id, mode, page, page_size) ==
    IF mode # "" /\ mode \notin LogModes
    THEN [status |-> 400,
          detail |-> "Mode must be 'suggestion' or 'autonomous'",
          body   |-> Null]
    ELSE
    LET filtered_logs ==
            NewestFirst(FilterByMode(FilterBySession(storage, session_id), mode))
        start_idx == (page - 1) * page_size
        end_idx   == start_idx + page_size
    IN  [status |-> 200,
         detail |-> Null,
         body   |-> [logs      |-> Slice(filtered_logs, start_idx, end_idx),
                     total     |-> Len(filtered_logs),
                     page      |-> page,
                     page_size |-> page_size]]

----------------------------------------------------------------------------
(* The conversation-logs routes, called on an initially empty store *)

MaxLogCalls == 2

\* uuid.uuid4() of the n-th request: an id no request sends and no other
\* request draws
Uuid(n) == "uuid-" \o ToString(n)

SentLogIds == {"log-1"}

SessionIds == {"session-1", "session-2"}

SentModes == LogModes \cup {"yolo"}

SentOutcomes == LogOutcomes \cup {"abandoned"}

Timestamps == {1704067200, 1704067260}

\* the ConversationLog bodies the n-th request can carry: log_id and
\* timestamp as sent, or as their default_factory gives them
ConversationLog(n) ==
    [log_id     : SentLogIds \cup {Uuid(n)},
     session_id : SessionIds,
     mode       : SentModes,
     outcome    : SentOutcomes,
     timestamp  : Timestamps]

\* the service after start-up: an empty conversation_logs_storage
InitLogs == InitTools

SaveConversationLog ==
    /\ log_calls < MaxLogCalls
    /\ \E log \in ConversationLog(log_calls + 1) :
        LET result == save_conversation_log(conversation_logs_storage, log)
        IN  /\ log_request' = log
            /\ log_response' = [status |-> result.status,
                                detail |-> result.detail,
                                body   |-> result.body]
            /\ conversation_logs_storage' = result.storage
    /\ log_calls' = log_calls + 1
    /\ UNCHANGED <<goal, safety_constraints, goal_state, request, response,
                   calls, turns, accepted, escalated, terminal,
                   failed_request, tool_call, in_flight, completed,
                   conversation_context>>

NextLogs == SaveConversationLog

LogSpec == InitLogs /\ [][NextLogs]_vars

----------------------------------------------------------------------------
(* Logs saved, then queried *)

MaxQueryCalls == 3

MaxPage == 2

MaxPageSize == 2

\* the logs the n-th request can save: every one passes the validation
AuditLog(n) ==
    [log_id     : SentLogIds \cup {Uuid(n)},
     session_id : SessionIds,
     mode       : LogModes,
     outcome    : {"completed"},
     timestamp  : Timestamps]

\* the query parameters; "" is a parameter not given
LogQueries ==
    [session_id : {"", "session-1"},
     mode       : {"", "autonomous", "yolo"},
     page       : 1..MaxPage,
     page_size  : 1..MaxPageSize]

SaveAuditLog ==
    /\ log_calls < MaxQueryCalls
    /\ \E log \in AuditLog(log_calls + 1) :
        LET result == save_conversation_log(conversation_logs_storage, log)
        IN  /\ log_request' = log
            /\ log_response' = [status |-> result.status,
                                detail |-> result.detail,
                                body   |-> result.body]
            /\ conversation_logs_storage' = result.storage
    /\ log_calls' = log_calls + 1
    /\ UNCHANGED <<goal, safety_constraints, goal_state, request, response,
                   calls, turns, accepted, escalated, terminal,
                   failed_request, tool_call, in_flight, completed,
                   conversation_context>>

GetConversationLogs ==
    /\ log_calls < MaxQueryCalls
    /\ \E q \in LogQueries :
        /\ log_request' = q
        /\ log_response' =
              get_conversation_logs(conversation_logs_storage, q.session_id,
                                    q.mode, q.page, q.page_size)
    /\ log_calls' = log_calls + 1
    /\ UNCHANGED <<goal, safety_constraints, goal_state, request, response,
                   calls, turns, accepted, escalated, terminal,
                   failed_request, tool_call, in_flight, completed,
                   conversation_logs_storage, conversation_context>>

NextLogQueries == SaveAuditLog \/ GetConversationLogs

LogQuerySpec == InitLogs /\ [][NextLogQueries]_vars

----------------------------------------------------------------------------
(* What the last request of the conversation did *)

Accepted == response.status = 200

Entry == request.goal_state

Outcome == response.body

SafetyCalls == SelectSeq(calls, LAMBDA c : c.fn = "check_safety_constraints")

TrackCalls == SelectSeq(calls, LAMBDA c : c.fn = "track_goal_progress")

\* the verdict of the safety evaluation the turn ran first
Verdict == calls[1].result

SafetyRanFirst == calls # <<>> /\ calls[1].fn = "check_safety_constraints"

\* the progress track_goal_progress gives a non-resolving turn count
BaselineAt(turn, max_turns) ==
    IF 10 * turn >= 9 * max_turns THEN 90 ELSE Round2(turn, max_turns)

----------------------------------------------------------------------------
(* Claims *)

\* C1: on an accepted turn whose safety verdict is escalate and whose updated
\* state is inactive because the turn ceiling is reached, the emitted action
\* is escalate, never goal_complete.
C1_EscalationOverridesCompletion ==
    (/\ Accepted
     /\ SafetyRanFirst
     /\ Verdict.decision = "escalate"
     /\ Entry.current_turn + 1 >= request.goal.max_turns
     /\ ~Outcome.updated_state.active)
    => (Outcome.action = ESCALATE /\ Outcome.action # GOAL_COMPLETE)

C1_Witness ==
    /\ Accepted
    /\ SafetyRanFirst
    /\ Verdict.decision = "escalate"
    /\ Entry.current_turn + 1 >= request.goal.max_turns
    /\ ~Outcome.updated_state.active
    /\ Outcome.action = ESCALATE

\* C2: on an accepted turn whose safety verdict is safe and whose updated
\* state is inactive, the emitted action is goal_complete.
C2_GoalCompletionReported ==
    (/\ Accepted
     /\ SafetyRanFirst
     /\ Verdict.decision = "safe"
     /\ ~Outcome.updated_state.active)
    => Outcome.action = GOAL_COMPLETE

\* C3: every accepted turn runs check_safety_constraints on the candidate
\* reply before anything else, a released response_text is the text that
\* was evaluated and was judged safe in that turn, and a turn that is not
\* accepted releases nothing.
C3_SafetyGate ==
    /\ Accepted =>
        /\ SafetyRanFirst
        /\ Len(SafetyCalls) = 1
        /\ Outcome.response_text # Null =>
            /\ Verdict.decision = "safe"
            /\ Outcome.response_text = calls[1].message
    /\ (request # Null /\ ~Accepted) => Outcome = Null

C3_Witness ==
    /\ Accepted
    /\ Outcome.response_text # Null
    /\ Verdict.decision = "safe"
    /\ request.safety_constraints.escalation_keywords # <<>>

\* C4: a request whose current_turn is at or past max_turns on entry is
\* rejected with status 400: no response body, no tool function run, the
\* caller's GoalState as it was; the error is the turn-limit error whenever
\* the goal passed the description check that precedes it.
C4_TurnLimitRejected ==
    (request # Null /\ Entry.current_turn >= request.goal.max_turns)
    => /\ response.status = 400
       /\ Outcome = Null
       /\ calls = <<>>
       /\ goal_state = Entry
       /\ request.goal.description # ""
            => response.detail = <<"Max turns reached", request.goal.max_turns>>

C4_Witness ==
    /\ request # Null
    /\ Entry.current_turn = request.goal.max_turns
    /\ response.status = 400
    /\ response.detail = <<"Max turns reached", request.goal.max_turns>>

\* C5: in every emitted outcome, a verdict of escalate gives action escalate
\* and a null response_text, a verdict of safe gives the evaluated candidate
\* as response_text, and response_text is null exactly when the turn
\* escalated.
C5_ReplyDiscardedOnEscalation ==
    Accepted =>
        /\ SafetyRanFirst
        /\ Verdict.decision = "escalate"
            => (Outcome.action = ESCALATE /\ Outcome.response_text = Null)
        /\ Verdict.decision = "safe"
            => Outcome.response_text = calls[1].message
        /\ (Outcome.response_text = Null) <=> (Verdict.decision = "escalate")
        /\ (Outcome.response_text = Null) <=> (Outcome.action = ESCALATE)

C5_Witness ==
    /\ Accepted
    /\ Verdict.decision = "escalate"
    /\ Outcome.response_text = Null

\* C6: every accepted turn, respond or escalate, runs track_goal_progress
\* exactly once on the entry state and returns current_turn = entry + 1.
C6_AdvancedOncePerTurn ==
    Accepted =>
        /\ Len(TrackCalls) = 1
        /\ TrackCalls[1].current_state = Entry
        /\ Outcome.updated_state = TrackCalls[1].result
        /\ Outcome.updated_state.current_turn = Entry.current_turn + 1

C6_Witness ==
    /\ Accepted
    /\ Outcome.action = ESCALATE
    /\ Outcome.updated_state.current_turn = Entry.current_turn + 1
    /\ accepted >= 2

\* C7 as stated: for max_turns >= 1 and any valid state and action text,
\* track_goal_progress returns current_turn + 1 and a progress not below
\* state.progress.
C7_ProgressNeverDecreases ==
    (tool_call # Null /\ tool_call.fn = "track_goal_progress")
    => /\ tool_call.result.current_turn = tool_call.current_state.current_turn + 1
       /\ tool_call.result.progress >= tool_call.current_state.progress

\* C7 amended: track_goal_progress returns current_turn + 1, and a progress
\* not below state.progress whenever state.progress is at most the progress
\* the tracker itself gives the turn count state.current_turn.
C7_TrackerAdvances ==
    (tool_call # Null /\ tool_call.fn = "track_goal_progress")
    => /\ tool_call.result.current_turn = tool_call.current_state.current_turn + 1
       /\ tool_call.current_state.progress
             <= BaselineAt(tool_call.current_state.current_turn,
                           tool_call.goal.max_turns)
            => tool_call.result.progress >= tool_call.current_state.progress

C7_Witness ==
    /\ tool_call # Null
    /\ tool_call.fn = "track_goal_progress"
    /\ tool_call.current_state.progress > 0
    /\ tool_call.current_state.progress
          <= BaselineAt(tool_call.current_state.current_turn,
                        tool_call.goal.max_turns)
    /\ tool_call.result.progress > tool_call.current_state.progress
    /\ tool_call.result.progress < 100

\* C8: once a turn of the conversation has emitted escalate, no later
\* request of the conversation is accepted.
C8_EscalatedIsTerminal == escalated => ~Accepted

\* C9: once a returned updated_state has active = FALSE, every later request
\* of the conversation is rejected (status 400, nothing processed).
C9_InactiveIsTerminal ==
    terminal => (response.status = 400 /\ Outcome = Null /\ calls = <<>>)

C9_Witness ==
    /\ terminal
    /\ request.goal_state.active = FALSE
    /\ request.goal_state.current_turn = request.goal.max_turns
    /\ response.status = 400

C15_GoalStateMonotone ==
    [][ /\ goal_state'.current_turn >= goal_state.current_turn
        /\ accepted >= 1 => goal_state'.progress >= goal_state.progress ]_vars

C15_Witness ==
    /\ accepted >= 2
    /\ Accepted
    /\ Entry.progress > 0
    /\ Outcome.updated_state.progress > Entry.progress
    /\ Outcome.updated_state.current_turn > Entry.current_turn

\* C16 as stated: two turns of the conversation are never both computed
\* from the same entry GoalState n, both returning current_turn = n + 1.
C16_TurnsSerialized ==
    \A i, j \in 1..Len(completed) :
        (/\ i < j
         /\ completed[i].status = 200
         /\ completed[j].status = 200
         /\ completed[i].entry = completed[j].entry)
        => ~(/\ completed[i].updated.current_turn
                  = completed[i].entry.current_turn + 1
             /\ completed[j].updated.current_turn
                  = completed[j].entry.current_turn + 1)

----------------------------------------------------------------------------
(* Claims about the tool functions *)

IsSafetyCall == tool_call # Null /\ tool_call.fn = "check_safety_constraints"

\* the keywords of the call that occur in the message, ignoring case
HitKeywords ==
    SelectSeq(tool_call.constraints.escalation_keywords,
              LAMBDA k : Contains(Lower(tool_call.message), Lower(k)))

LowConfidence == tool_call.confidence < tool_call.constraints.min_confidence

Confused ==
    /\ tool_call.constraints.stop_if_confused
    /\ \E k \in 1..Len(ConfusionPhrases) :
          Contains(Lower(tool_call.message), ConfusionPhrases[k])

ExpectedTriggers ==
    [i \in 1..Len(HitKeywords) |-> KeywordTriggerPrefix \o HitKeywords[i]]
    \o (IF LowConfidence
          THEN << LowConfidencePrefix \o Format2f(tool_call.confidence) >>
          ELSE <<>>)
    \o (IF Confused THEN << CONFUSION_DETECTED >> ELSE <<>>)

\* C11: check_safety_constraints always returns a verdict; the decision is
\* escalate exactly when a keyword occurs in the text (ignoring case), or
\* confidence < min_confidence, or stop_if_confused is set and a confusion
\* phrase occurs; the triggers are one entry per keyword that occurs, in
\* list order, then low_confidence, then confusion_detected, each present
\* exactly when its condition holds; otherwise safe with no triggers.
C11_AllTriggersCollected ==
    IsSafetyCall =>
        /\ tool_call.result.decision \in {"safe", "escalate"}
        /\ (tool_call.result.decision = "escalate")
              <=> (HitKeywords # <<>> \/ LowConfidence \/ Confused)
        /\ tool_call.result.triggers = ExpectedTriggers
        /\ (tool_call.result.decision = "safe")
              <=> (tool_call.result.triggers = <<>>)

C11_Witness ==
    /\ IsSafetyCall
    /\ Len(HitKeywords) = 2
    /\ LowConfidence
    /\ Confused
    /\ Len(tool_call.result.triggers) = 4
    /\ tool_call.result.triggers[4] = CONFUSION_DETECTED

IsTrackCall ==
    /\ tool_call # Null
    /\ tool_call.fn = "track_goal_progress"
    /\ tool_call.goal.max_turns >= 1

NewTurn == tool_call.current_state.current_turn + 1

SaysResolved == Contains(Lower(tool_call.latest_action), RESOLVED)

\* C12: for max_turns >= 1 the returned active flag is true exactly when
\* the returned progress is below 1.0 and current_turn + 1 < max_turns; a
\* non-resolving action that brings the turn count to max_turns returns
\* active = false with progress 0.9.
C12_ActiveIffBelowCeiling ==
    IsTrackCall =>
        /\ tool_call.result.active
              <=> (/\ tool_call.result.progress < 100
                   /\ NewTurn < tool_call.goal.max_turns)
        /\ (~SaysResolved /\ NewTurn = tool_call.goal.max_turns)
              => (~tool_call.result.active /\ tool_call.result.progress = 90)

C12_Witness ==
    /\ IsTrackCall
    /\ ~SaysResolved
    /\ NewTurn = tool_call.goal.max_turns
    /\ tool_call.goal.max_turns > 1
    /\ ~tool_call.result.active
    /\ tool_call.result.progress = 90

\* C13: for max_turns >= 1 the returned progress is 1.0 exactly when
\* latest_action contains "resolved" ignoring case, and then active is
\* false whatever the turn count; for every other action the progress is
\* min(new_turn / max_turns, 0.9) rounded to two decimals, at most 0.9.
C13_CompletionOnlyWhenResolved ==
    IsTrackCall =>
        /\ (tool_call.result.progress = 100) <=> SaysResolved
        /\ SaysResolved => ~tool_call.result.active
        /\ ~SaysResolved =>
            /\ tool_call.result.progress
                  = BaselineAt(NewTurn, tool_call.goal.max_turns)
            /\ tool_call.result.progress <= 90

C13_Witness ==
    /\ IsTrackCall
    /\ SaysResolved
    /\ tool_call.latest_action # Lower(tool_call.latest_action)
    /\ NewTurn < tool_call.goal.max_turns
    /\ tool_call.result.progress = 100
    /\ ~tool_call.result.active

\* C14: track_goal_progress called with max_turns <= 0 fails with an
\* invalid-goal error: it neither divides by zero nor returns a GoalState.
C14_InvalidGoalRejected ==
    (/\ tool_call # Null
     /\ tool_call.fn = "track_goal_progress"
     /\ tool_call.goal.max_turns <= 0)
    => (/\ "raised" \in DOMAIN tool_call.result
        /\ tool_call.result.raised = "InvalidGoalError")

----------------------------------------------------------------------------
(* Claims about process_conversation_context *)

IsContextCall ==
    tool_call # Null /\ tool_call.fn = "process_conversation_context"

ContextFailed == DOMAIN tool_call.result = {"error"}

\* C17: process_conversation_context fails with the invalid-message-count
\* error when the history is empty or longer than 50 messages, and for a
\* history of 1 to 50 messages returns processed_messages (one per input
\* message, in order, content stripped), an intent and the entities.
C17_HistoryLengthChecked ==
    IsContextCall =>
        /\ (Len(tool_call.messages) = 0 \/ Len(tool_call.messages) > 50)
              => (ContextFailed /\ tool_call.result.error = "Invalid message count")
        /\ Len(tool_call.messages) \in 1..50 =>
            /\ DOMAIN tool_call.result
                  = {"processed_messages", "intent", "entities"}
            /\ Len(tool_call.result.processed_messages) = Len(tool_call.messages)
            /\ \A i \in 1..Len(tool_call.messages) :
                  /\ tool_call.result.processed_messages[i].role
                        = tool_call.messages[i].role
                  /\ tool_call.result.processed_messages[i].content
                        = Strip(tool_call.messages[i].content)
            /\ tool_call.result.intent
                  \in {"order_inquiry", "refund_request", "general_inquiry"}
            /\ DOMAIN tool_call.result.entities = {"order_numbers", "emails"}

C17_Witness ==
    /\ IsContextCall
    /\ Len(tool_call.messages) = 50
    /\ ~ContextFailed
    /\ Len(tool_call.result.processed_messages) = 50
    /\ Len(tool_call.result.entities.emails) = 50

\* some message of the history contains one of the words, ignoring case
Mentions(words) ==
    \E i \in 1..Len(tool_call.messages), w \in words :
        Contains(Lower(tool_call.messages[i].content), w)

\* C18: the intent is order_inquiry whenever the history mentions order,
\* shipping or delivery, also when it mentions refund, return or cancel as
\* well; refund_request when it mentions only one of the latter; and
\* general_inquiry otherwise. The history of the one message "Order #4521,
\* email me at a@b.com" gives order_inquiry, ["#4521"] and ["a@b.com"].
C18_FirstIntentWins ==
    /\ (IsContextCall /\ ~ContextFailed) =>
        tool_call.result.intent =
            IF Mentions(OrderWords) THEN "order_inquiry"
            ELSE IF Mentions(RefundWords) THEN "refund_request"
            ELSE "general_inquiry"
    /\ (/\ IsContextCall
        /\ Len(tool_call.messages) = 1
        /\ tool_call.messages[1].content = ExampleContent)
       => /\ tool_call.result.intent = "order_inquiry"
          /\ tool_call.result.entities.order_numbers
                = << <<"#","4","5","2","1">> >>
          /\ tool_call.result.entities.emails
                = << <<"a","@","b",".","c","o","m">> >>

C18_Witness ==
    /\ IsContextCall
    /\ ~ContextFailed
    /\ Mentions(OrderWords)
    /\ Mentions(RefundWords)
    /\ \E i \in 1..Len(tool_call.messages) :
          ~\E w \in OrderWords :
              Contains(Lower(tool_call.messages[i].content), w)
    /\ tool_call.result.intent = "order_inquiry"

----------------------------------------------------------------------------
(* Claims about the conversation-logs routes *)

StoredLogs == {conversation_logs_storage[i] :
                  i \in 1..Len(conversation_logs_storage)}

Acceptable(log) ==
    /\ log.outcome \in {"completed", "escalated", "interrupted"}
    /\ log.mode \in {"suggestion", "autonomous"}

\* C20: a save request is accepted exactly when its outcome is one of
\* completed, escalated, interrupted and its mode is one of suggestion,
\* autonomous, and the accepted log is then stored; any other save request
\* is rejected with status 400 and leaves the stored logs as they were; so
\* every stored log has an allowed outcome and mode.
C20_OnlyValidLogsStored ==
    [][ log_calls' = log_calls + 1 =>
          /\ Acceptable(log_request') =>
                /\ log_response'.status = 200
                /\ log_request' \in StoredLogs'
          /\ ~Acceptable(log_request') =>
                /\ log_response'.status = 400
                /\ log_response'.body = Null
                /\ conversation_logs_storage' = conversation_logs_storage
          /\ \A log \in StoredLogs' : Acceptable(log) ]_vars

C20_Witness ==
    /\ log_request # Null
    /\ log_request.mode = "autonomous"
    /\ log_request.outcome \notin {"completed", "escalated", "interrupted"}
    /\ log_response.status = 400
    /\ Len(conversation_logs_storage) = 1
    /\ log_request \notin StoredLogs

IsLogQuery == log_request # Null /\ "page_size" \in DOMAIN log_request

\* the stored logs a query with a valid or no mode filter asks for
Matching ==
    {i \in 1..Len(conversation_logs_storage) :
        /\ log_request.mode # ""
              => conversation_logs_storage[i].mode = log_request.mode
        /\ log_request.session_id # ""
              => conversation_logs_storage[i].session_id = log_request.session_id}

\* C21: after any sequence of successful saves, a query whose mode filter is
\* suggestion, autonomous or absent answers 200 with total = the number of
\* stored logs matching its mode and session_id filters; its page holds at
\* most page_size logs, each a stored log matching the filters, none twice,
\* ordered newest timestamp first.
C21_QueryCountsStoredLogs ==
    (IsLogQuery /\ log_request.mode \in {"", "suggestion", "autonomous"}) =>
        LET page == log_response.body.logs
        IN  /\ log_response.status = 200
            /\ log_response.body.total = Cardinality(Matching)
            /\ Len(page) <= log_request.page_size
            /\ \A k \in 1..Len(page) :
                  \E i \in Matching : conversation_logs_storage[i] = page[k]
            /\ \A k, l \in 1..Len(page) :
                  k < l => (/\ page[k].timestamp >= page[l].timestamp
                            /\ page[k].log_id # page[l].log_id)

C21_Witness ==
    /\ IsLogQuery
    /\ log_request.mode = "autonomous"
    /\ Len(conversation_logs_storage) = 2
    /\ conversation_logs_storage[1].timestamp
          < conversation_logs_storage[2].timestamp
    /\ log_response.status = 200
    /\ log_response.body.total = 2
    /\ log_response.body.logs
          = <<conversation_logs_storage[2], conversation_logs_storage[1]>>

----------------------------------------------------------------------------
(* Claims about the conversation, continued *)

\* C22: a request whose goal_state.active is false is rejected and gives no
\* outcome, also when its current_turn is below max_turns.
C22_InactiveEntryRejected ==
    (request # Null /\ ~Entry.active) => (~Accepted /\ Outcome = Null)

\* the conversation began with current_turn = 0: every accepted turn has
\* added one to the current_turn the caller holds
StartedAtZero == goal_state.current_turn = accepted

\* C23: in a conversation that starts at current_turn = 0 and carries each
\* returned GoalState into the next request, at most max_turns requests are
\* accepted; the max_turns-th accepted turn returns active = false, and
\* every request after it is rejected with status 400 and changes nothing.
C23_BoundedConversation ==
    /\ [](StartedAtZero =>
            /\ accepted <= goal.max_turns
            /\ (accepted = goal.max_turns /\ Accepted)
                  => ~Outcome.updated_state.active)
    /\ [][ (StartedAtZero /\ accepted = goal.max_turns) =>
              /\ response'.status = 400
              /\ response'.body = Null
              /\ accepted' = accepted
              /\ goal_state' = goal_state ]_vars

C23_Witness ==
    /\ StartedAtZero
    /\ goal.max_turns = MaxTurns
    /\ accepted = goal.max_turns
    /\ ~goal_state.active
    /\ turns > accepted
    /\ response.status = 400
    /\ response.detail = <<"Max turns reached", goal.max_turns>>

\* C24: on every accepted turn the action handed to track_goal_progress is
\* respond or escalate, the returned updated_state has progress <= 0.9, and
\* its active flag is false exactly when entry current_turn + 1 >= max_turns.
C24_PolicyNeverCompletes ==
    Accepted =>
        /\ Len(TrackCalls) = 1
        /\ TrackCalls[1].latest_action \in {RESPOND, ESCALATE}
        /\ TrackCalls[1].latest_action = Outcome.action
        /\ Outcome.updated_state.progress <= 90
        /\ (~Outcome.updated_state.active)
              <=> (Entry.current_turn + 1 >= request.goal.max_turns)

C24_Witness ==
    /\ Accepted
    /\ Outcome.action = RESPOND
    /\ request.goal.max_turns = MaxTurns
    /\ Entry.current_turn + 1 = request.goal.max_turns
    /\ Outcome.updated_state.progress = 90
    /\ ~Outcome.updated_state.active

\* C25: two accepted requests with the same goal, GoalState and safety
\* constraints and different histories get the same action, response_text,
\* updated_state and confidence.
C25_HistoryIndependent ==
    \A i, j \in 1..Len(completed) :
        (/\ completed[i].status = 200
         /\ completed[j].status = 200
         /\ completed[i].request.goal = completed[j].request.goal
         /\ completed[i].request.goal_state = completed[j].request.goal_state
         /\ completed[i].request.safety_constraints
               = completed[j].request.safety_constraints
         /\ completed[i].request.conversation_context
               # completed[j].request.conversation_context)
        => /\ completed[i].body.action = completed[j].body.action
           /\ completed[i].body.response_text = completed[j].body.response_text
           /\ completed[i].body.updated_state = completed[j].body.updated_state
           /\ completed[i].body.confidence = completed[j].body.confidence

C25_Witness ==
    /\ Len(completed) = 2
    /\ completed[1].status = 200
    /\ completed[2].status = 200
    /\ completed[1].request.goal_state = completed[2].request.goal_state
    /\ Len(completed[1].request.conversation_context)
          # Len(completed[2].request.conversation_context)
    /\ \E k \in 1..Len(safety_constraints.escalation_keywords) :
          Contains(Lower(completed[2].request.conversation_context[1].content),
                   Lower(safety_constraints.escalation_keywords[k]))
          /\ safety_constraints.escalation_keywords[k] # <<>>
    /\ completed[1].body.action = RESPOND
    /\ completed[2].body = completed[1].body

====
